---- MODULE Spec2Model ----
(***************************************************************************)
(* Model of compress_tiff_file (utils3.py): the iterative resize-and-save  *)
(* loop that shrinks a TIFF until the saved file fits a size budget.       *)
(*                                                                         *)
(* Numbers.  scale_factor and min_size_percentage are Python floats.  The  *)
(* model keeps scale_factor on a fixed-point grid of ScaleDen steps per    *)
(* unit and min_size_percentage as the fraction pctNum / PctDen.  For the  *)
(* image sizes and iteration counts explored here the truncations          *)
(* int(width * scale_factor) and int(width * min_size_percentage) computed *)
(* on these grids equal the ones IEEE double arithmetic produces.          *)
(*                                                                         *)
(* Environment.  The file system is the function fs from paths to the      *)
(* dimensions of the image stored there.  The byte size a given image      *)
(* takes once LZW-compressed is decided by the codec and the picture, not  *)
(* by this function: it is the map codec from dimensions to KB, fixed per  *)
(* run (the pipeline is deterministic) but otherwise arbitrary; entries    *)
(* other than the floor's are resolved the first time a size is written.   *)
(* ioReliable tells whether Image.open and Image.save can fail.            *)
(***************************************************************************)
EXTENDS Integers, Sequences, FiniteSets, TLC

\* ---- bounds of the exploration ----
MaxDim == 3          \* source images are 1..MaxDim pixels wide and high
PctDen == 4          \* min_size_percentage ranges over 0/PctDen .. PctDen/PctDen
MaxTarget == 2       \* target_size_kb ranges over 1..MaxTarget
MaxIter == 13        \* the loop is explored up to this many scale updates
ScaleDen == 10000000 \* fixed-point resolution of scale_factor

\* ---- program constants ----
InitScaleNum == 9    \* scale_factor = 0.9
InitScaleDen == 10
DecayNum == 95       \* scale_factor *= 0.95
DecayDen == 100

VARIABLES
    input_file,        \* argument: path, a sequence of components (each a
                       \* sequence of string pieces, read concatenated)
    target_size_kb,    \* argument
    pctNum,            \* argument min_size_percentage = pctNum / PctDen
    ioReliable,        \* environment: open and save never fail
    codec,             \* environment: dimensions -> size in KB of the saved file
    fs,                \* file system: path -> dimensions of the stored image
    output_file,       \* local
    scale_factor,      \* local, in units of 1/ScaleDen
    original_size,     \* local (original_width, original_height)
    img,               \* the image opened by the current `with` block
    new_size,          \* (new_width, new_height) last handed to resize
    pc,                \* position in the function
    iter,              \* index k of the current loop iteration
    writes,            \* number of completed saves
    written,           \* set of paths ever written
    lastError,         \* exception that ended the call, or "none"
    result             \* returned value

vars == << input_file, target_size_kb, pctNum, ioReliable, codec, fs,
           output_file, scale_factor, original_size, img, new_size, pc,
           iter, writes, written, lastError, result >>

None == << >>
NoResult == "no_result"
SizesKB == 1..(MaxTarget + 1)

\* ---- pure helpers ----
Max(a, b) == IF a >= b THEN a ELSE b

\* int(x) of a non-negative quotient num/den: truncation toward zero
Trunc(num, den) == num \div den

\* os.path.basename
Basename(path) == path[Len(path)]

\* variant: the output overwrites the input path
OutputPathInPlace(path) == path

\* f"compressed_{os.path.basename(input_file)}", a path of one component
OutputPath(path) == << << "compressed_" >> \o Basename(path) >>

\* variant: the loop starts at full size
InitialScaleFull == ScaleDen

InitialScale == (InitScaleNum * ScaleDen) \div InitScaleDen

\* variant: the update leaves the scale factor where it is
ScaleMulStuck(sf) == sf

\* variant: the update grows the scale factor
ScaleMulGrow(sf) == (sf * (2 * DecayDen - DecayNum)) \div DecayDen

\* scale_factor *= 0.95
ScaleMul(sf) == (sf * DecayNum) \div DecayDen

\* int(original_dim * min_size_percentage)
MinDim(dim) == Trunc(dim * pctNum, PctDen)

\* max(int(dim * scale_factor), min_dim)
NewDim(dim, sf, mindim) == Max(Trunc(dim * sf, ScaleDen), mindim)

\* variant: the size check lets one KB too many through
WithinTargetLoose(size, target) == size <= target + 1

\* variant: the loop breaks after the first save whatever its size
WithinTargetAlways(size, target) == TRUE

\* output_size_kb <= target_size_kb
WithinTarget(size, target) == size <= target

\* variant: progressive recompression, each iteration re-opens the last output
LoopSourceProgressive ==
    IF output_file \in DOMAIN fs THEN output_file ELSE input_file

\* the path the loop re-opens in every iteration
LoopSource == input_file

\* Image.resize rejects a size with a component below 1 (ValueError)
ResizeAccepts(size) == size[1] >= 1 /\ size[2] >= 1

\* os.path.getsize(path) / 1024
GetSizeKB(path) == codec[fs[path]]

\* ---- environment-derived values ----
SourceSize == fs[input_file]
Floor == << MinDim(SourceSize[1]), MinDim(SourceSize[2]) >>
FloorValid == ResizeAccepts(Floor)

InputPaths == { << << "scan.tif" >> >>, << << "in" >>, << "scan.tif" >> >> }

Init ==
    /\ input_file \in InputPaths
    /\ target_size_kb \in 1..MaxTarget
    /\ pctNum \in 0..PctDen
    /\ ioReliable \in BOOLEAN
    /\ \E w \in 1..MaxDim, h \in 1..MaxDim : fs = (input_file :> << w, h >>)
    /\ \/ /\ FloorValid
          /\ \E kb \in SizesKB : codec = (Floor :> kb)
       \/ /\ ~FloorValid
          /\ codec = [d \in {} |-> 0]
    /\ output_file = OutputPath(input_file)
    /\ scale_factor = InitialScale
    /\ original_size = None
    /\ img = None
    /\ new_size = None
    /\ pc = "open_original"
    /\ iter = 0
    /\ writes = 0
    /\ written = {}
    /\ lastError = "none"
    /\ result = NoResult

\* variant: the failure is recorded and the failed step is tried again
RaiseRetry(err) ==
    /\ pc' = pc
    /\ lastError' = err

\* an exception leaves the function: nothing else changes
Raise(err) ==
    /\ pc' = "raised"
    /\ lastError' = err

\* with Image.open(input_file) as img: original_width, original_height = img.size
OpenOriginal ==
    /\ pc = "open_original"
    /\ \/ /\ original_size' = fs[input_file]
          /\ pc' = "loop_open"
          /\ UNCHANGED lastError
       \/ /\ ~ioReliable
          /\ Raise("decode")
          /\ UNCHANGED original_size
    /\ UNCHANGED << input_file, target_size_kb, pctNum, ioReliable, codec, fs,
                    output_file, scale_factor, img, new_size, iter, writes,
                    written, result >>

\* while True: with Image.open(input_file) as img:
LoopOpen ==
    /\ pc = "loop_open"
    /\ \/ /\ img' = fs[LoopSource]
          /\ pc' = "resize"
          /\ UNCHANGED lastError
       \/ /\ ~ioReliable
          /\ Raise("decode")
          /\ UNCHANGED img
    /\ UNCHANGED << input_file, target_size_kb, pctNum, ioReliable, codec, fs,
                    output_file, scale_factor, original_size, new_size, iter,
                    writes, written, result >>

\* min_width .. new_height, img.resize, and the size-preserving filters
Resize ==
    /\ pc = "resize"
    /\ LET min_width == MinDim(original_size[1])
           min_height == MinDim(original_size[2])
           new_width == NewDim(img[1], scale_factor, min_width)
           new_height == NewDim(img[2], scale_factor, min_height)
       IN /\ new_size' = << new_width, new_height >>
          /\ IF ResizeAccepts(<< new_width, new_height >>)
             THEN pc' = "save" /\ UNCHANGED lastError
             ELSE Raise("value")
    /\ UNCHANGED << input_file, target_size_kb, pctNum, ioReliable, codec, fs,
                    output_file, scale_factor, original_size, img, iter,
                    writes, written, result >>

\* img_resized.save(output_file, format="TIFF", compression=compression)
Save ==
    /\ pc = "save"
    /\ \/ /\ fs' = (output_file :> new_size) @@ fs
          /\ written' = written \cup { output_file }
          /\ writes' = writes + 1
          /\ IF new_size \in DOMAIN codec
             THEN UNCHANGED codec
             ELSE \E kb \in SizesKB : codec' = (new_size :> kb) @@ codec
          /\ pc' = "check"
          /\ UNCHANGED lastError
       \/ /\ ~ioReliable
          /\ Raise("write")
          /\ UNCHANGED << fs, written, writes, codec >>
    /\ UNCHANGED << input_file, target_size_kb, pctNum, ioReliable,
                    output_file, scale_factor, original_size, img, new_size,
                    iter, result >>

\* the size check, then either break and return, or shrink the scale factor
CheckSize ==
    /\ pc = "check"
    /\ LET output_size_kb == GetSizeKB(output_file)
       IN \/ /\ WithinTarget(output_size_kb, target_size_kb)
             /\ pc' = "returned"
             /\ result' = output_file
             /\ UNCHANGED << scale_factor, iter >>
          \/ /\ ~WithinTarget(output_size_kb, target_size_kb)
             /\ iter < MaxIter
             /\ scale_factor' = ScaleMul(scale_factor)
             /\ iter' = iter + 1
             /\ pc' = "loop_open"
             /\ UNCHANGED result
    /\ UNCHANGED << input_file, target_size_kb, pctNum, ioReliable, codec, fs,
                    output_file, original_size, img, new_size, writes,
                    written, lastError >>

Next ==
    \/ OpenOriginal
    \/ LoopOpen
    \/ Resize
    \/ Save
    \/ CheckSize

Spec == Init /\ [][Next]_vars

\* the interpreter keeps executing the function: every enabled step is taken
LiveSpec == Spec /\ WF_vars(Next)

TypeOK ==
    /\ pc \in { "open_original", "loop_open", "resize", "save", "check",
                "returned", "raised" }
    /\ iter \in 0..MaxIter
    /\ scale_factor \in 0..ScaleDen

\* ---- vocabulary of the properties ----

\* the largest integer n with n <= num / den (num / den at most MaxDim + 1)
IntPart(num, den) ==
    CHOOSE n \in 0..(MaxDim + 1) : n * den <= num /\ num < (n + 1) * den

\* a non-negative quotient num / den rounded to the nearest integer
RoundNearest(num, den) == (2 * num + den) \div (2 * den)

\* the name the contract gives the output: compressed_<basename(input_file)>
ExpectedOutput == << << "compressed_" >> \o input_file[Len(input_file)] >>

\* the value 0.9 * 0.95^k takes on the scale grid
RECURSIVE ScaleAt(_)
ScaleAt(k) ==
    IF k = 0 THEN (9 * ScaleDen) \div 10 ELSE (ScaleAt(k - 1) * 95) \div 100

\* the candidate of iteration 0: max(0.9 * original, floor) in whole pixels
FirstDims ==
    << Max(IntPart(9 * SourceSize[1], 10), IntPart(pctNum * SourceSize[1], PctDen)),
       Max(IntPart(9 * SourceSize[2], 10), IntPart(pctNum * SourceSize[2], PctDen)) >>

\* new_size is the candidate computed with the present scale_factor
CandidateCurrent == pc \in { "save", "check", "returned" }

\* a file is produced at the floor dimensions and it fits the target
FloorFits == FloorValid /\ codec[Floor] <= target_size_kb

\* every file size the codec has produced or will produce at the floor
\* exceeds the target
AllSizesExceed == \A d \in DOMAIN codec : codec[d] > target_size_kb

\* ---- properties ----

\* C1: with working I/O and a target no smaller than the file produced at the
\* floor dimensions, the call eventually leaves the loop and returns.
C1_Terminates == (ioReliable /\ FloorFits) ~> (pc = "returned")

C1_Witness ==
    /\ pc = "returned"
    /\ ioReliable
    /\ FloorFits
    /\ iter >= 6
    /\ fs[output_file] = Floor

\* C2: on return the result is compressed_<basename(input_file)>, the file
\* there is the candidate written by the last iteration executed, and its
\* size is at most target_size_kb.
C2_ReturnWithinTarget ==
    pc = "returned" =>
        /\ result = ExpectedOutput
        /\ result \in DOMAIN fs
        /\ fs[result] = new_size
        /\ writes = iter + 1
        /\ codec[fs[result]] <= target_size_kb

C2_Witness ==
    /\ pc = "returned"
    /\ iter >= 1
    /\ Len(input_file) = 2

\* C3: every candidate is at least min_size_percentage times the original
\* dimension, measured against the exact product.
C3_AtLeastExactFraction ==
    CandidateCurrent =>
        /\ new_size[1] * PctDen >= pctNum * SourceSize[1]
        /\ new_size[2] * PctDen >= pctNum * SourceSize[2]

\* C4 as stated: if the file produced at the floor dimensions exceeds the
\* target and no open or save fails, the call never returns or raises.
C4_FloorTooBigNeverEnds ==
    (ioReliable /\ FloorValid /\ codec[Floor] > target_size_kb)
        => pc \notin { "returned", "raised" }

\* C4 amended: if every file the loop produces, at the floor dimensions and at
\* each larger size tried on the way there, exceeds the target and no open or
\* save fails, the call never returns or raises.
C4_AllTooBigNeverEnds ==
    (ioReliable /\ FloorValid /\ AllSizesExceed)
        => pc \notin { "returned", "raised" }

C4_Witness ==
    /\ ioReliable
    /\ FloorValid
    /\ AllSizesExceed
    /\ pc = "check"
    /\ new_size = Floor
    /\ iter >= 8

\* C5: when the file of the first iteration fits the target, the call returns
\* after that one iteration: one save, no scale-factor update, and the
\* written image measures max(0.9 * original, floor) in width and height.
C5_FirstPassReturns ==
    (writes >= 1 /\ FirstDims \in DOMAIN codec
                 /\ codec[FirstDims] <= target_size_kb)
        => /\ pc \in { "check", "returned" }
           /\ iter = 0
           /\ writes = 1
           /\ scale_factor = (InitScaleNum * ScaleDen) \div InitScaleDen
           /\ fs[output_file] = FirstDims

C5_Witness ==
    /\ pc = "returned"
    /\ writes = 1
    /\ codec[FirstDims] <= target_size_kb
    /\ FirstDims # Floor

\* C6: iteration k runs with scale factor 0.9 * 0.95^k; the factor changes only
\* at a failed size check, by one multiplication by 0.95, together with the
\* move to the next iteration, and it never increases.
C6_ScaleSequence ==
    /\ [](scale_factor = ScaleAt(iter))
    /\ [][ /\ scale_factor' <= scale_factor
           /\ (scale_factor' # scale_factor \/ iter' # iter)
                => /\ pc = "check"
                   /\ codec[fs[output_file]] > target_size_kb
                   /\ iter' = iter + 1
                   /\ scale_factor' = (scale_factor * 95) \div 100
           /\ (pc = "check" /\ codec[fs[output_file]] <= target_size_kb)
                => /\ scale_factor' = scale_factor
                   /\ iter' = iter ]_vars

C6_Witness ==
    /\ iter >= 3
    /\ pc = "check"
    /\ scale_factor < (InitScaleNum * ScaleDen) \div InitScaleDen

\* C7: a failed open or save ends the call in an error at once: nothing is
\* returned, no later step runs, the step is not retried and the scale factor
\* is not updated.
C7_FailurePropagates ==
    /\ [](lastError # "none" => pc = "raised" /\ result = NoResult)
    /\ [][ (lastError = "none" /\ lastError' # "none")
              => /\ pc' = "raised"
                 /\ scale_factor' = scale_factor
                 /\ iter' = iter
                 /\ writes' = writes
                 /\ fs' = fs
                 /\ result' = NoResult ]_vars
    /\ [][ pc = "raised" => pc' = "raised" ]_vars

C7_Witness ==
    /\ pc = "raised"
    /\ lastError = "write"
    /\ iter >= 1

\* C8 as stated: the candidate is max(round(original * scale), min), the
\* product rounded to the nearest integer.
C8_RoundedCandidate ==
    CandidateCurrent =>
        new_size = << Max(RoundNearest(SourceSize[1] * scale_factor, ScaleDen),
                          IntPart(pctNum * SourceSize[1], PctDen)),
                      Max(RoundNearest(SourceSize[2] * scale_factor, ScaleDen),
                          IntPart(pctNum * SourceSize[2], PctDen)) >>

\* C8 amended: the candidate is max(int(original * scale), min), the product
\* truncated toward zero, and it is taken from the original dimensions in
\* every iteration, never from the previous candidate.
C8_TruncatedCandidate ==
    CandidateCurrent =>
        new_size = << Max(IntPart(SourceSize[1] * scale_factor, ScaleDen),
                          IntPart(pctNum * SourceSize[1], PctDen)),
                      Max(IntPart(SourceSize[2] * scale_factor, ScaleDen),
                          IntPart(pctNum * SourceSize[2], PctDen)) >>

C8_Witness ==
    /\ pc = "check"
    /\ iter >= 1
    /\ new_size[1] > Floor[1]
    /\ new_size[1] # RoundNearest(SourceSize[1] * scale_factor, ScaleDen)
    /\ new_size[1] < fs[input_file][1]

\* C9: every iteration that reaches the save overwrites the one file
\* compressed_<basename(input_file)> before the size check; that file holds
\* the most recent saved candidate, the saves number the iterations that
\* reached the save, and no other path is written.
C9_SingleOutputFile ==
    /\ written \subseteq { ExpectedOutput }
    /\ DOMAIN fs \subseteq { input_file, ExpectedOutput }
    /\ original_size # None => fs[input_file] = original_size
    /\ (writes >= 1) <=> (ExpectedOutput \in DOMAIN fs)
    /\ pc \in { "check", "returned" } =>
          writes = iter + 1 /\ fs[ExpectedOutput] = new_size
    /\ pc \in { "open_original", "loop_open", "resize", "save", "raised" } =>
          writes = iter
    /\ (pc \in { "loop_open", "resize" } /\ writes >= 1) =>
          fs[ExpectedOutput] = new_size

C9_Witness ==
    /\ pc = "check"
    /\ writes >= 3
    /\ fs[ExpectedOutput] # fs[input_file]

\* C10: the dimensions handed to resize are both at least 1 and at most the
\* corresponding original dimension.
C10_ResizeDimsPositive ==
    new_size # None =>
        /\ new_size[1] >= 1 /\ new_size[1] <= SourceSize[1]
        /\ new_size[2] >= 1 /\ new_size[2] <= SourceSize[2]
====
